---- MODULE Spec2Model ----
(***************************************************************************)
(* State-machine model of ircevents/engine.py: the registration model of   *)
(* Engine (use / when), the matcher Engine.process and the per-namespace   *)
(* StateManager.                                                           *)
(*                                                                         *)
(* Reading of the source text.  engine.py as written does not load: line   *)
(* 156 closes a tuple with "}", line 66 names defaultdict without an       *)
(* import, and several attribute names do not exist on the objects they    *)
(* are applied to.  The model keeps every control-flow and data-structure  *)
(* decision of the text and resolves each such name to the object the      *)
(* surrounding code builds:                                                *)
(*   l.155  using.namespace      -> the Mutation field "name" (l.107)      *)
(*   l.131  whens.keys()         -> the namedtuple's field names           *)
(*   l.157-158  using_whens / using_when -> one loop over the trigger      *)
(*          names stored in _whens_map[key] (l.132)                        *)
(*   l.166  self._whens._fields  -> the field names registered for the     *)
(*          trigger using_when                                             *)
(* Nothing else is repaired: absent checks, absent returns and absent      *)
(* exception handlers are modelled as absent.                              *)
(***************************************************************************)
EXTENDS Integers, Sequences, FiniteSets, TLC

(* ---------------------------- bounds ----------------------------------- *)
MaxUsing == 2      \* mutations added with use()
MaxWhens == 2      \* successful when() registrations
MaxCalls == 2      \* process() calls

(* --------------------------- small domains ----------------------------- *)
Namespaces == {"user", "chan"}
Lines      == {"JOIN alice", "PART bob"}
Names      == {"aaaaaaaa", "bbbbbbbb"}
StateKey   == "last"
None       == "None"

\* dir(obj) lists attribute names in sorted order (l.83)
FieldOrder == <<"event", "nick">>

EmptyDict == [x \in {} |-> None]

Put(d, k, v) == [x \in (DOMAIN d) \cup {k} |-> IF x = k THEN v ELSE d[x]]

(* What a transform yields: kind "rec" with the record's public variables, *)
(* kind "none" when it returns None, kind "raise" when it raises.          *)
Rec(f)   == [kind |-> "rec", vars |-> f]
NoRec    == [kind |-> "none", vars |-> EmptyDict]
RaiseRec == [kind |-> "raise", vars |-> EmptyDict]

(* The transforms the caller passes to use(): caller-supplied functions    *)
(* from the raw line to a record, to None, or raising.                     *)
Transform(t, line) ==
  CASE t = "parse_user" ->
         IF line = "JOIN alice"
           THEN Rec([k \in {"event", "nick"} |-> IF k = "event" THEN "JOIN" ELSE "alice"])
           ELSE Rec([k \in {"event", "nick"} |-> IF k = "event" THEN "PART" ELSE "bob"])
    [] t = "parse_chan" ->
         IF line = "JOIN alice"
           THEN Rec([k \in {"event"} |-> "JOIN"])
           ELSE NoRec
    [] OTHER ->
         IF line = "JOIN alice"
           THEN RaiseRec
           ELSE Rec([k \in {"nick"} |-> "bob"])

(* The (namespace, transform) pairs the caller passes to use(). *)
UseArgs == { <<"user", "parse_user">>, <<"chan", "parse_chan">>, <<"chan", "parse_bad">> }

(* The decorated functions of the caller: the **when_kwargs, as ordered    *)
(* (key, value) pairs, and the callback.  cb_set stores a tag of the       *)
(* record under StateKey, cb_get reads StateKey back, cb_raise raises.     *)
Handlers ==
  { [req |-> << <<"event", "JOIN">> >>,                       func |-> "cb_set"],
    [req |-> << <<"event", "JOIN">> >>,                       func |-> "cb_get"],
    [req |-> << <<"event", "JOIN">>, <<"nick", "alice">> >>,  func |-> "cb_raise"],
    [req |-> << >>,                                           func |-> "cb_get"] }

ReqKeys(req)   == {req[i][1] : i \in 1..Len(req)}
ReqValues(req) == [i \in 1..Len(req) |-> req[i][2]]
ReqPairs(req)  == {req[i] : i \in 1..Len(req)}

VARIABLES
  namespaces,        \* self._namespaces            (l.68)
  using,             \* self._using                 (l.52)
  whens,             \* self._whens                 (l.69)
  whens_funcs,       \* self._whens_funcs           (l.70)
  whens_namespaces,  \* self._whens_namespaces      (l.71)
  whens_map,         \* self._whens_map             (l.72)
  states,            \* self._states                (l.66)
  pc,                \* position inside process: idle / using / keys / whens
  raw_line,          \* argument of the running process call
  mutations,         \* local mutations             (l.148)
  requires,          \* local requires              (l.149)
  triggered_whens,   \* local triggered_whens       (l.150)
  todo_using,        \* mutations the loop of l.153 has not reached yet
  cur_using,         \* the loop variable using     (l.153)
  todo_keys,         \* variables the loop of l.156 has not reached yet
  cur_key,           \* the loop variable key       (l.156)
  todo_whens,        \* names the loop of l.157 has not reached yet
  calls,             \* number of process calls started
  outcome,           \* how the last process call ended
  invoked,           \* callbacks invoked by the current call, in order
  seen,              \* (namespace, key, value) triples yielded at l.156
  applied,           \* mutations whose transform has been called (l.154)
  regs,              \* the successful when() registrations, in order
  failed,            \* error raised by the last call, when it was a registration
  got,               \* what the last cb_get obtained from state.get
  lastset,           \* per namespace: call and value of the last state.set
  fired_before,      \* trigger names whose callbacks earlier calls invoked
  running,           \* self._running.is_set()     (l.74)
  run_pc,            \* position inside run: off / test / pre / recv / process /
                     \* processing / returned / raised
  raw_text,          \* local raw_text of run       (l.211)
  run_trace          \* what the current iteration of run has called, in order

vars == << namespaces, using, whens, whens_funcs, whens_namespaces, whens_map,
           states, pc, raw_line, mutations, requires, triggered_whens,
           todo_using, cur_using, todo_keys, cur_key, todo_whens, calls,
           outcome, invoked, seen, applied, regs, failed, got, lastset,
           fired_before, running, run_pc, raw_text, run_trace >>

registry == << namespaces, using, whens, whens_funcs, whens_namespaces, whens_map >>
locals   == << raw_line, mutations, requires, triggered_whens, todo_using,
               cur_using, todo_keys, cur_key, todo_whens >>
history  == << calls, outcome, invoked, seen, applied, got, lastset,
               fired_before >>
runvars  == << running, run_pc, raw_text, run_trace >>

NoUsing == [name |-> None, callback |-> None]
NoError == [error |-> "", ns |-> None]

(* Engine.__init__ *)
Init ==
  /\ namespaces = {}
  /\ using = {}
  /\ whens = {}
  /\ whens_funcs = EmptyDict
  /\ whens_namespaces = EmptyDict
  /\ whens_map = EmptyDict
  /\ states = EmptyDict
  /\ pc = "idle"
  /\ raw_line = None
  /\ mutations = EmptyDict
  /\ requires = EmptyDict
  /\ triggered_whens = {}
  /\ todo_using = {}
  /\ cur_using = NoUsing
  /\ todo_keys = << >>
  /\ cur_key = None
  /\ todo_whens = {}
  /\ calls = 0
  /\ outcome = "none"
  /\ invoked = << >>
  /\ seen = {}
  /\ applied = {}
  /\ regs = << >>
  /\ failed = NoError
  /\ got = [call |-> 0, ns |-> None, value |-> None]
  /\ lastset = EmptyDict
  /\ fired_before = {}
  /\ running = FALSE
  /\ run_pc = "off"
  /\ raw_text = None
  /\ run_trace = << >>

(* ------------------------- registration -------------------------------- *)
(* Registration is the set-up phase of the caller: it precedes the first   *)
(* process call (calls = 0) and run (run_pc = "off").                      *)

(* Adding a namespace to the registry self._namespaces. *)
RegisterNamespace(ns) ==
  /\ pc = "idle" /\ calls = 0 /\ run_pc = "off"
  /\ ns \notin namespaces
  /\ namespaces' = namespaces \cup {ns}
  /\ failed' = NoError
  /\ UNCHANGED << using, whens, whens_funcs, whens_namespaces, whens_map,
                  states, locals, pc, history, regs, runvars >>

Mutation(ns, cb) == [name |-> ns, callback |-> cb]

(* The check use() makes of its namespace argument: none. *)
UseAssert(ns) == TRUE

(* Engine.use *)
Use(ns, cb) ==
  /\ pc = "idle" /\ calls = 0 /\ run_pc = "off"
  /\ Cardinality(using) < MaxUsing
  /\ Mutation(ns, cb) \notin using
  /\ UseAssert(ns)
  /\ using' = using \cup {Mutation(ns, cb)}
  /\ failed' = NoError
  /\ UNCHANGED << namespaces, whens, whens_funcs, whens_namespaces, whens_map,
                  states, locals, pc, history, regs, runvars >>

(* dict2tuple: a namedtuple whose class name is the random name and whose  *)
(* fields and values are the mapping's.                                    *)
dict2tuple(name, req) == [name |-> name, req |-> req]

(* set.add of a namedtuple: tuples are equal when their values are. *)
SetAdd(s, t) ==
  IF \E e \in s : ReqValues(e.req) = ReqValues(t.req) THEN s ELSE s \cup {t}

(* l.131-132: map keys to name *)
MapKeys(wmap, req, name) ==
  [k \in (DOMAIN wmap) \cup ReqKeys(req) |->
     IF k \in ReqKeys(req)
       THEN (IF k \in DOMAIN wmap THEN wmap[k] ELSE {}) \cup {name}
       ELSE wmap[k]]

(* when() without the assertion of l.117 *)
WhenAssertAbsent(ns) == TRUE

(* l.117 *)
WhenAssert(ns) == ns \in namespaces

(* Engine.when applied as a decorator to a function: the assertion holds,  *)
(* the trigger is registered under the name dict2tuple drew, and           *)
(* decorator_when stores the callback.                                     *)
When(ns, h, name) ==
  /\ pc = "idle" /\ calls = 0 /\ run_pc = "off"
  /\ Len(regs) < MaxWhens
  /\ WhenAssert(ns)
  /\ whens' = SetAdd(whens, dict2tuple(name, h.req))
  /\ whens_namespaces' = Put(whens_namespaces, name, ns)
  /\ whens_map' = MapKeys(whens_map, h.req, name)
  /\ whens_funcs' = Put(whens_funcs, name, h.func)
  /\ regs' = Append(regs, [ns |-> ns, req |-> h.req, func |-> h.func, name |-> name])
  /\ failed' = NoError
  /\ UNCHANGED << namespaces, using, states, locals, pc, history, runvars >>

(* Engine.when with the assertion of l.117 failing. *)
WhenFails(ns) ==
  /\ pc = "idle" /\ calls = 0 /\ run_pc = "off"
  /\ ~ WhenAssert(ns)
  /\ failed' = [error |-> "AssertionError", ns |-> ns]
  /\ UNCHANGED << registry, states, locals, pc, history, regs, runvars >>

(* --------------------------- StateManager ------------------------------ *)

(* StateManager.set: setattr(self, key, value) *)
StateManager_set(st, key, value) == Put(st, key, value)

(* StateManager.get: the getattr result is computed and dropped; the       *)
(* method has no return statement.                                         *)
StateManager_get(st, key) == None

(* self._states[namespace] on a defaultdict: a missing key is inserted     *)
(* with a fresh StateManager.                                              *)
StatesLookup(sts, ns) == IF ns \in DOMAIN sts THEN sts ELSE Put(sts, ns, EmptyDict)

(* ------------------------------ process -------------------------------- *)

(* Engine._get_variables: the public, non-callable attributes in dir()     *)
(* order; None has none.                                                   *)
get_variables(rec) ==
  IF rec.kind = "rec"
    THEN SelectSeq(FieldOrder, LAMBDA k : k \in DOMAIN rec.vars)
    ELSE << >>

(* self._whens_map[key] on a defaultdict(set): a missing key is inserted   *)
(* with an empty set.                                                      *)
MapLookup(wmap, key) == IF key \in DOMAIN wmap THEN wmap ELSE Put(wmap, key, {})

(* l.166: the field names registered for trigger name w. *)
WhensFields(w) == {k \in DOMAIN whens_map : w \in whens_map[k]}

(* What cb_set stores: a tag of the record it was handed. *)
DataTag(data) ==
  IF "event" \in DOMAIN data.vars THEN data.vars["event"]
  ELSE IF "nick" \in DOMAIN data.vars THEN data.vars["nick"] ELSE None

(* Where the three nested loops stand once the current body is done. *)
NextPc(tw, tk) == IF tw # {} THEN "whens" ELSE IF tk # << >> THEN "keys" ELSE "using"

(* Process is left, by return or by an exception: its frame is gone.  The *)
(* argument raw_line and the last values of requires and triggered_whens   *)
(* are kept for inspection; the next call starts from l.148-150.           *)
Leave(out) ==
  /\ pc' = "idle"
  /\ outcome' = out
  /\ UNCHANGED raw_line
  /\ mutations' = EmptyDict
  /\ todo_using' = {}
  /\ cur_using' = NoUsing
  /\ todo_keys' = << >>
  /\ cur_key' = None
  /\ todo_whens' = {}

(* requires kept from the previous call (an attribute instead of a local) *)
KeptRequires(old) == old

(* l.149: requires = dict() *)
NewRequires(old) == EmptyDict

(* l.150: triggered_whens = set() *)
NewTriggered(old) == {}

(* The names of the triggers whose callbacks the call invoked. *)
InvokedNames == {invoked[j].when : j \in 1..Len(invoked)}

(* l.148-150 and the entry of the loop of l.153 *)
ProcessCall(line) ==
  /\ pc = "idle"
  /\ calls < MaxCalls
  /\ raw_line' = line
  /\ mutations' = EmptyDict
  /\ requires' = NewRequires(requires)
  /\ triggered_whens' = NewTriggered(triggered_whens)
  /\ fired_before' = fired_before \cup InvokedNames
  /\ todo_using' = using
  /\ cur_using' = NoUsing
  /\ todo_keys' = << >>
  /\ cur_key' = None
  /\ todo_whens' = {}
  /\ pc' = "using"
  /\ calls' = calls + 1
  /\ outcome' = "running"
  /\ invoked' = << >>
  /\ seen' = {}
  /\ applied' = {}
  /\ failed' = NoError
  /\ UNCHANGED << registry, states, regs, got, lastset >>

(* Engine.process called by the user of the engine, outside run. *)
ProcessBegin(line) ==
  /\ run_pc = "off"
  /\ ProcessCall(line)
  /\ UNCHANGED runvars

(* l.153-155: the next mutation in set order; its transform is called; an  *)
(* exception leaves process (there is no handler).                         *)
ApplyMutation(u) ==
  /\ pc = "using"
  /\ u \in todo_using
  /\ applied' = applied \cup {u}
  /\ LET mutation == Transform(u.callback, raw_line) IN
       IF mutation.kind = "raise"
         THEN Leave("raised")
         ELSE /\ todo_using' = todo_using \ {u}
              /\ cur_using' = u
              /\ mutations' = Put(mutations, u.name, mutation)
              /\ todo_keys' = get_variables(mutation)
              /\ pc' = NextPc({}, todo_keys')
              /\ UNCHANGED << outcome, raw_line, cur_key, todo_whens >>
  /\ UNCHANGED << registry, states, calls, invoked, seen, regs, failed,
                  got, lastset, requires, triggered_whens, fired_before,
                  runvars >>

(* l.156-157: the next (key, value) of the record; the reverse index is    *)
(* read with [].                                                           *)
NextKey ==
  /\ pc = "keys"
  /\ todo_keys # << >>
  /\ LET key == Head(todo_keys) IN
       /\ cur_key' = key
       /\ todo_keys' = Tail(todo_keys)
       /\ whens_map' = MapLookup(whens_map, key)
       /\ todo_whens' = whens_map'[key]
       /\ seen' = seen \cup {<< cur_using.name, key, mutations[cur_using.name].vars[key] >>}
  /\ pc' = NextPc(todo_whens', todo_keys')
  /\ UNCHANGED << namespaces, using, whens, whens_funcs, whens_namespaces,
                  states, raw_line, mutations, requires, triggered_whens,
                  todo_using, cur_using, calls, outcome, invoked, applied,
                  regs, failed, got, lastset, fired_before, runvars >>

(* l.183: func(data, state) for the callbacks of Handlers. *)
CallFunc(func, ns, data, sts) ==
  CASE func = "cb_set" ->
         [states |-> Put(sts, ns, StateManager_set(sts[ns], StateKey, DataTag(data))),
          got |-> got,
          lastset |-> Put(lastset, ns, [call |-> calls, value |-> DataTag(data)]),
          raised |-> FALSE]
    [] func = "cb_get" ->
         [states |-> sts,
          got |-> [call |-> calls, ns |-> ns,
                   value |-> StateManager_get(sts[ns], StateKey)],
          lastset |-> lastset,
          raised |-> FALSE]
    [] OTHER ->
         [states |-> sts, got |-> got, lastset |-> lastset, raised |-> TRUE]

(* process without the guard of l.179-180 *)
NoneGuardAbsent(data) == FALSE

(* l.179: None in [namespace, func, data] *)
NoneGuard(data) == data.kind = "none"

(* The record being scanned handed over instead of the namespace's own. *)
ScannedData(namespace) == mutations[cur_using.name]

(* l.176: data = mutations.get(namespace) *)
TriggerData(namespace) ==
  IF namespace \in DOMAIN mutations THEN mutations[namespace] ELSE NoRec

(* l.173-183: the trigger is satisfied. *)
Trigger(w, req) ==
  LET namespace == whens_namespaces[w]
      func == whens_funcs[w]
      data == TriggerData(namespace)
      sts == StatesLookup(states, namespace)
  IN IF NoneGuard(data)
       THEN [requires |-> req, triggered |-> triggered_whens \cup {w},
             states |-> sts, got |-> got, lastset |-> lastset,
             invoked |-> invoked, raised |-> FALSE]
       ELSE LET r == CallFunc(func, namespace, data, sts) IN
            [requires |-> req, triggered |-> triggered_whens \cup {w},
             states |-> r.states, got |-> r.got, lastset |-> r.lastset,
             invoked |-> Append(invoked,
                [when |-> w, func |-> func, ns |-> namespace, data |-> data,
                 by |-> cur_using.name, key |-> cur_key]),
             raised |-> r.raised]

Same(req) ==
  [requires |-> req, triggered |-> triggered_whens, states |-> states,
   got |-> got, lastset |-> lastset, invoked |-> invoked, raised |-> FALSE]

(* l.169: set.remove(key) raises KeyError when key is not in the set. *)
RemoveRaises(whens_requires, key) == key \notin whens_requires

(* l.160: the trigger has been triggered already in this call. *)
AlreadyTriggered(w) == w \in triggered_whens

(* l.172 *)
AllFound(whens_requires) == Cardinality(whens_requires) = 0

(* The body without the skip of l.160-161 and with a removal that does    *)
(* not raise (discard).                                                    *)
BodyNoSkip(w) ==
  LET whens_requires == IF w \in DOMAIN requires THEN requires[w]
                                                  ELSE WhensFields(w)
  IN IF AllFound(whens_requires \ {cur_key})
       THEN Trigger(w, Put(requires, w, whens_requires \ {cur_key}))
       ELSE Same(Put(requires, w, whens_requires \ {cur_key}))

(* l.159-183: the body of the innermost loop for trigger name w. *)
Body(w) ==
  IF AlreadyTriggered(w)
    THEN Same(requires)
    ELSE LET whens_requires == IF w \in DOMAIN requires THEN requires[w]
                                                         ELSE WhensFields(w)
         IN IF RemoveRaises(whens_requires, cur_key)
              THEN [Same(Put(requires, w, whens_requires)) EXCEPT !.raised = TRUE]
              ELSE IF AllFound(whens_requires \ {cur_key})
                     THEN Trigger(w, Put(requires, w, whens_requires \ {cur_key}))
                     ELSE Same(Put(requires, w, whens_requires \ {cur_key}))

(* l.157-183: one iteration of the innermost loop, for the next trigger    *)
(* name in set order; an exception leaves process (there is no handler).   *)
MatchWhen(w) ==
  /\ pc = "whens"
  /\ w \in todo_whens
  /\ LET r == Body(w) IN
       /\ states' = r.states
       /\ got' = r.got
       /\ lastset' = r.lastset
       /\ invoked' = r.invoked
       /\ requires' = r.requires
       /\ triggered_whens' = r.triggered
       /\ IF r.raised
            THEN Leave("raised")
            ELSE /\ todo_whens' = todo_whens \ {w}
                 /\ pc' = NextPc(todo_whens', todo_keys)
                 /\ UNCHANGED << outcome, raw_line, mutations, todo_using,
                                 cur_using, todo_keys, cur_key >>
  /\ UNCHANGED << registry, calls, seen, applied, regs, failed, fired_before,
                  runvars >>

(* The loop of l.153 is exhausted: process returns (None). *)
ProcessReturn ==
  /\ pc = "using"
  /\ todo_using = {}
  /\ Leave("returned")
  /\ UNCHANGED << registry, states, calls, invoked, seen, applied,
                  regs, failed, got, lastset, requires, triggered_whens,
                  fired_before, runvars >>

Next ==
  \/ \E ns \in Namespaces : RegisterNamespace(ns)
  \/ \E a \in UseArgs : Use(a[1], a[2])
  \/ \E ns \in Namespaces, h \in Handlers, name \in Names : When(ns, h, name)
  \/ \E ns \in Namespaces : WhenFails(ns)
  \/ \E line \in Lines : ProcessBegin(line)
  \/ \E u \in using : ApplyMutation(u)
  \/ NextKey
  \/ \E w \in Names : MatchWhen(w)
  \/ ProcessReturn

Spec == Init /\ [][Next]_vars

(* ------------------------------- run ----------------------------------- *)
(* The hooks are the callables given to pre_process, post_process and      *)
(* recv_with; they return, and the receive callback returns a line.        *)
(* Everything of the engine but the event and the frame of run is left     *)
(* alone by the steps of run.                                              *)
engine == << registry, states, locals, pc, history, regs, failed >>

(* Engine.run is called once the engine is set up. *)
RunStart ==
  /\ pc = "idle" /\ run_pc = "off"
  /\ run_pc' = "test"
  /\ UNCHANGED << engine, running, raw_text, run_trace >>

(* l.208: while not self._running.is_set() *)
RunTest ==
  /\ run_pc = "test"
  /\ IF running
       THEN run_pc' = "returned" /\ UNCHANGED run_trace
       ELSE calls < MaxCalls /\ run_pc' = "pre" /\ run_trace' = << >>
  /\ UNCHANGED << engine, running, raw_text >>

(* l.209: the pre-process hook *)
RunPre ==
  /\ run_pc = "pre"
  /\ run_trace' = Append(run_trace, "pre")
  /\ run_pc' = "recv"
  /\ UNCHANGED << engine, running, raw_text >>

(* l.211-212: the receive callback returns line *)
RunRecv(line) ==
  /\ run_pc = "recv"
  /\ raw_text' = line
  /\ run_trace' = Append(run_trace, "recv")
  /\ run_pc' = "process"
  /\ UNCHANGED << engine, running >>

(* l.213: self.process(raw_text) is entered *)
RunProcess ==
  /\ run_pc = "process"
  /\ ProcessCall(raw_text)
  /\ run_trace' = Append(run_trace, "process")
  /\ run_pc' = "processing"
  /\ UNCHANGED << running, raw_text >>

(* l.215: process has returned; the post-process hook, then back to l.208 *)
RunPost ==
  /\ run_pc = "processing" /\ pc = "idle" /\ outcome = "returned"
  /\ run_trace' = Append(run_trace, "post")
  /\ run_pc' = "test"
  /\ UNCHANGED << engine, running, raw_text >>

(* l.213: process has raised; run has no handler and is left by the        *)
(* exception.                                                              *)
RunRaise ==
  /\ run_pc = "processing" /\ pc = "idle" /\ outcome = "raised"
  /\ run_pc' = "raised"
  /\ UNCHANGED << engine, running, raw_text, run_trace >>

(* Engine.stop, called by a callback or by another thread at any moment. *)
Stop ==
  /\ ~ running
  /\ running' = TRUE
  /\ UNCHANGED << engine, run_pc, raw_text, run_trace >>

NextRun ==
  \/ \E ns \in Namespaces : RegisterNamespace(ns)
  \/ \E a \in UseArgs : Use(a[1], a[2])
  \/ \E ns \in Namespaces, h \in Handlers, name \in Names : When(ns, h, name)
  \/ \E ns \in Namespaces : WhenFails(ns)
  \/ RunStart
  \/ RunTest
  \/ RunPre
  \/ \E line \in Lines : RunRecv(line)
  \/ RunProcess
  \/ \E u \in using : ApplyMutation(u)
  \/ NextKey
  \/ \E w \in Names : MatchWhen(w)
  \/ ProcessReturn
  \/ RunPost
  \/ RunRaise
  \/ Stop

SpecRun == Init /\ [][NextRun]_vars

(* ============================ properties =============================== *)

CallOver == pc = "idle" /\ calls > 0

Invocations(w) == {j \in 1..Len(invoked) : invoked[j].when = w}

(* The call observed every (field, value) pair of req in the record of    *)
(* namespace ns.                                                           *)
Covered(req, ns) ==
  \A p \in ReqPairs(req) : << ns, p[1], p[2] >> \in seen

(* The call observed a field of req with a value other than the expected. *)
Mismatched(req) ==
  \E p \in ReqPairs(req) : \E t \in seen : t[2] = p[1] /\ t[3] # p[2]

(* Registration i drew a name no other registration drew. *)
OwnName(i) == \A j \in 1..Len(regs) : j # i => regs[j].name # regs[i].name

(* C1: for every registered trigger T (with a non-empty requirement        *)
(* mapping R), if the process call observed a pair equal to every (field,  *)
(* expected value) of R (here: all of them in the record of T's own        *)
(* namespace, the case every reading of the claim covers), then T's        *)
(* callback was invoked exactly once during that call.                     *)
C1_Claim ==
  CallOver =>
    \A i \in 1..Len(regs) :
      (regs[i].req # << >> /\ OwnName(i) /\ Covered(regs[i].req, regs[i].ns))
        => Cardinality(Invocations(regs[i].name)) = 1

(* C2: for every registered trigger T with requirement mapping R, if the   *)
(* process call observed a field named in R with a value different from    *)
(* R's expected value, T's callback is not invoked during that call.       *)
C2_Claim ==
  \A i \in 1..Len(regs) :
    Mismatched(regs[i].req) => Invocations(regs[i].name) = {}

(* C3: in every process call each trigger's callback is invoked at most    *)
(* once, however often fields of its requirement set are observed.         *)
C3_AtMostOnce ==
  \A i, j \in 1..Len(invoked) : i # j => invoked[i].when # invoked[j].when

(* A call that returned, in which a trigger fired and a field it requires  *)
(* was observed in two records.                                            *)
C3_Witness ==
  /\ CallOver /\ outcome = "returned"
  /\ \E j \in 1..Len(invoked) :
       \E k \in WhensFields(invoked[j].when) :
         Cardinality({t \in seen : t[2] = k}) >= 2

(* C4: state persists across calls: when a callback set StateKey to v in   *)
(* namespace N during call i and a callback reads StateKey of N during     *)
(* call i+1 with no set in between, the read obtains v.                    *)
C4_Claim ==
  (got.call > 1 /\ got.ns \in DOMAIN lastset /\ lastset[got.ns].call = got.call - 1)
    => got.value = lastset[got.ns].value

(* C5: a when() against a namespace that is not registered fails with an   *)
(* error and leaves the trigger set, the trigger-to-namespace map, the     *)
(* trigger-to-callback map and the reverse index unchanged; no trigger is  *)
(* ever registered for an unregistered namespace.                          *)
C5_UnregisteredRejected ==
  [][ /\ \A w \in DOMAIN whens_namespaces' : whens_namespaces'[w] \in namespaces'
      /\ (failed'.error = "AssertionError" /\ failed' # failed)
           => /\ failed'.ns \notin namespaces
              /\ UNCHANGED << whens, whens_namespaces, whens_funcs, whens_map >>
      /\ (Len(regs') > Len(regs)) => regs'[Len(regs')].ns \in namespaces ]_vars

(* A when() was rejected while a trigger was registered already. *)
C5_Witness ==
  /\ failed.error = "AssertionError"
  /\ failed.ns \notin namespaces
  /\ whens # {}

(* C6: registration is idempotent on the requirement mapping: two          *)
(* registrations with an identical mapping yield the same trigger id, and  *)
(* the reverse index holds one id for the mapping under each of its        *)
(* fields.                                                                 *)
C6_Claim ==
  \A i, j \in 1..Len(regs) :
    regs[i].req = regs[j].req =>
      /\ regs[i].name = regs[j].name
      /\ \A k \in ReqKeys(regs[i].req) :
           Cardinality({regs[m].name : m \in {n \in 1..Len(regs) : regs[n].req = regs[i].req}}
                       \cap whens_map[k]) = 1

(* C7: use() for a namespace that is not registered fails and adds         *)
(* nothing: a mutation is only ever in the pipeline for a registered       *)
(* namespace.                                                              *)
C7_Claim ==
  \A u \in using : u.name \in namespaces

(* C8: matching is scoped to the trigger's declared namespace: a field     *)
(* observed in the record of another namespace never removes that field    *)
(* from the trigger's outstanding requirements and never makes it fire.    *)
C8_Claim ==
  /\ \A j \in 1..Len(invoked) : invoked[j].by = invoked[j].ns
  /\ \A w \in DOMAIN requires :
       \A k \in WhensFields(w) \ requires[w] :
         \E t \in seen : t[1] = whens_namespaces[w] /\ t[2] = k

(* C9: a callback that raises does not abort process: the call returns     *)
(* normally.                                                               *)
C9_Claim ==
  (CallOver /\ \E j \in 1..Len(invoked) : invoked[j].func = "cb_raise")
    => outcome = "returned"

(* C10: a transform that raises on the line is isolated: the remaining     *)
(* mutations are still applied to the line and the call returns normally.  *)
C10_Claim ==
  (CallOver /\ \E u \in applied : Transform(u.callback, raw_line).kind = "raise")
    => (applied = using /\ outcome = "returned")

(* The transform of mutation u returned None for the line of the call. *)
Absent(u) == Transform(u.callback, raw_line).kind = "none"

(* Namespace ns took part in no observation and no invocation. *)
Untouched(ns) ==
  /\ \A t \in seen : t[1] # ns
  /\ \A j \in 1..Len(invoked) : invoked[j].ns # ns

AllAbsent(ns) ==
  /\ \E u \in applied : u.name = ns
  /\ \A u \in applied : u.name = ns => Absent(u)

C12_Claim ==
  (pc \in {"keys", "whens"} \/ invoked # << >> \/ seen # {}) => applied = using

(* The position of the first registration that drew name w. *)
RegIndex(w) ==
  CHOOSE i \in 1..Len(regs) :
    regs[i].name = w /\ \A j \in 1..Len(regs) : regs[j].name = w => i <= j

(* C13: callbacks are invoked in the order in which their triggers were    *)
(* resolved, and two triggers that become satisfied by the same observed   *)
(* field are invoked in ascending registration order.                      *)
C13_Claim ==
  \A a, b \in 1..Len(invoked) :
    (a < b /\ invoked[a].by = invoked[b].by /\ invoked[a].key = invoked[b].key)
      => RegIndex(invoked[a].when) < RegIndex(invoked[b].when)

(* Namespace ns produced a record in the call. *)
Produced(ns) ==
  \E u \in applied : u.name = ns /\ Transform(u.callback, raw_line).kind = "rec"

(* C14: a trigger registered with an empty requirement mapping fires       *)
(* exactly once in every process call in which its namespace produces a    *)
(* record.                                                                 *)
C14_Claim ==
  (CallOver /\ outcome = "returned") =>
    \A i \in 1..Len(regs) :
      (regs[i].req = << >> /\ OwnName(i) /\ Produced(regs[i].ns))
        => Cardinality(Invocations(regs[i].name)) = 1

RegisteredKeys == UNION {ReqKeys(regs[i].req) : i \in 1..Len(regs)}

RegisteredUnder(k) == {regs[i].name : i \in {j \in 1..Len(regs) : k \in ReqKeys(regs[j].req)}}

(* C16: a process call leaves the reverse index unchanged: the field names *)
(* keyed in it and the trigger ids under each are what registration made   *)
(* them, also when the line exposes field names that no trigger requires.  *)
C16_Claim ==
  /\ DOMAIN whens_map = RegisteredKeys
  /\ \A k \in DOMAIN whens_map : whens_map[k] = RegisteredUnder(k)

(* C17: whenever a callback is invoked, its first argument is the record   *)
(* that the trigger's declared namespace produced for the line being       *)
(* processed, and its second argument is the state object of that same     *)
(* namespace (written to by cb_set).                                       *)
C17_OwnRecordAndState ==
  \A j \in 1..Len(invoked) :
    /\ invoked[j].ns = whens_namespaces[invoked[j].when]
    /\ invoked[j].data.kind = "rec"
    /\ \E u \in applied :
         u.name = invoked[j].ns /\ Transform(u.callback, raw_line) = invoked[j].data
    /\ invoked[j].ns \in DOMAIN states
    /\ invoked[j].func = "cb_set" => StateKey \in DOMAIN states[invoked[j].ns]

(* In a second call, a callback was invoked while the record of another    *)
(* namespace was being scanned.                                            *)
C17_Witness ==
  /\ calls = 2
  /\ \E j \in 1..Len(invoked) : invoked[j].by # invoked[j].ns

(* ------------- the scan of one record as a function -------------------- *)
(* l.159-183 for trigger name w and field key, on the tracker st of the    *)
(* call: st.fired collects the triggers whose callbacks are invoked,       *)
(* st.raised tells that an exception has left process.                     *)
ScanWhen(st, key, w) ==
  IF st.raised \/ w \in st.triggered
    THEN st
    ELSE LET whens_requires == IF w \in DOMAIN st.requires THEN st.requires[w]
                                                            ELSE WhensFields(w)
             left == whens_requires \ {key}
             data == TriggerData(whens_namespaces[w])
         IN IF RemoveRaises(whens_requires, key)
              THEN [st EXCEPT !.requires = Put(st.requires, w, whens_requires),
                              !.raised = TRUE]
              ELSE IF AllFound(left)
                     THEN [requires  |-> Put(st.requires, w, left),
                           triggered |-> st.triggered \cup {w},
                           fired     |-> IF NoneGuard(data) THEN st.fired
                                                            ELSE st.fired \cup {w},
                           raised    |-> ~ NoneGuard(data) /\ whens_funcs[w] = "cb_raise"]
                     ELSE [st EXCEPT !.requires = Put(st.requires, w, left)]

(* l.157: the candidates of key, taken in the order names lists them. *)
RECURSIVE ScanNames(_, _, _)
ScanNames(st, key, names) ==
  IF names = << >>
    THEN st
    ELSE ScanNames(
           IF key \in DOMAIN whens_map /\ Head(names) \in whens_map[key]
             THEN ScanWhen(st, key, Head(names))
             ELSE st,
           key, Tail(names))

(* l.156: the fields of the record, taken in the order keys lists them. *)
RECURSIVE ScanKeys(_, _, _)
ScanKeys(st, keys, names) ==
  IF keys = << >>
    THEN st
    ELSE ScanKeys(ScanNames(st, Head(keys), names), Tail(keys), names)

(* The orders in which a set can be iterated. *)
Orders(S) ==
  {f \in [1..Cardinality(S) -> S] : \A i, j \in 1..Cardinality(S) : f[i] = f[j] => i = j}

(* The record of the current mutation is about to be scanned. *)
ScanStarts ==
  /\ pc = "keys"
  /\ todo_keys = get_variables(mutations[cur_using.name])

ScanStart ==
  [requires |-> requires, triggered |-> triggered_whens, fired |-> {}, raised |-> FALSE]

SecondObservation(w) ==
  /\ pc = "whens"
  /\ w \in todo_whens
  /\ ~ AlreadyTriggered(w)
  /\ w \in DOMAIN requires
  /\ cur_key \notin requires[w]

(* C20: observing a required field name of a not-yet-fired trigger a       *)
(* second time within one process call does not abort the call: the        *)
(* iteration of the innermost loop that handles it leaves process running. *)
C20_Claim ==
  [][\A w \in Names :
       (SecondObservation(w) /\ MatchWhen(w)) => outcome' # "raised"]_vars

(* What one iteration of run calls, in order. *)
RunOrder == << "pre", "recv", "process", "post" >>

IsPrefix(s, t) == Len(s) <= Len(t) /\ \A i \in 1..Len(s) : s[i] = t[i]

(* No transform applied by the call and no callback invoked by it raised. *)
CallbacksReturned ==
  /\ \A u \in applied : Transform(u.callback, raw_line).kind # "raise"
  /\ \A j \in 1..Len(invoked) : invoked[j].func # "cb_raise"

(* C19: every iteration of run calls the pre-process hook, the receive     *)
(* callback, process on the received text and the post-process hook, in    *)
(* this order; once stop() has been called no new iteration starts and run *)
(* returns only then; the iteration in progress runs to its post-process   *)
(* hook: run is not left by an exception while the hooks and callbacks     *)
(* return.                                                                 *)
C19_Claim ==
  [][/\ IsPrefix(run_trace', RunOrder)
     /\ (run_pc' = "processing" /\ pc' # "idle") => raw_line' = raw_text'
     /\ (run_pc = "test" /\ running) => run_pc' # "pre"
     /\ (run_pc = "test" /\ run_pc' = "returned") => running
     /\ (run_pc = "processing" /\ run_pc' = "test") => run_trace' = RunOrder
     /\ (run_pc' = "raised") => ~ CallbacksReturned']_vars

====
